---- MODULE Spec2Model ----
(***************************************************************************)
(* One-time redemption of QR codes (src/index.js).  The file holds two     *)
(* variants of the same server: the first mints through an ethers.js       *)
(* contract ("ethers", lines 1-187), the second through a thirdweb Engine   *)
(* server wallet ("engine", lines 189-383).  Both keep the codes in one     *)
(* SQLite table `qrs` and share the store statements and the claim flow.    *)
(***************************************************************************)
EXTENDS Integers, Sequences, FiniteSets, Bags, TLC

VARIABLES
    variant,    \* which of the two servers of src/index.js is running
    env,        \* the names of the environment variables that are set
    qrs,        \* the rows of table qrs
    calls,      \* the bag of POST /api/claim requests received: the locals
                \* of each handler and the response it sent
    txCount,    \* the number of transactions the minter has completed
    last        \* the last store statement run directly (SpecStore only)

vars == <<variant, env, qrs, calls, txCount, last>>

(* ------------------------------ bounds --------------------------------- *)
NCalls == 3     \* claim requests
MaxTime == 2    \* Date.now() ranges over 1..MaxTime
MaxRows == 3    \* a create request is taken while the table has fewer rows

Times == 1..MaxTime
Ids == {"c1", "c2"}     \* the values newId() returns
\* The `count` of a create request (a negative count is clamped to 1).
ReqCounts == {-1, 1, 2}

(* --------------------------- SQL / JS values --------------------------- *)
\* A nullable value is a set: {} is NULL (undefined in JS), {v} is the value v.
NULL == {}

\* JS truthiness of a nullable number: null, undefined and 0 are falsy.
Truthy(v) == v # NULL /\ v # {0}

(* ------------------------------ addresses ------------------------------ *)
\* A wallet address is a string; Chars gives its characters, for the checks
\* that inspect a string character by character.
Addr1 == "0x1111111111111111111111111111111111111111"
Addr2 == "0xaaaaaaaaaaaaaaaaaaaaaaaaaaaaaaaaaaaaaaaa"
AddrNonHex == "0xzzzzzzzzzzzzzzzzzzzzzzzzzzzzzzzzzzzzzzzz"
AddrShort == "0x111111111111111111111111111111111111111"

Wallets == {Addr1, Addr2, AddrNonHex, AddrShort}

Rep(ch, n) == [i \in 1..n |-> ch]
Prefix0x == <<"0", "x">>

Chars(s) ==
    CASE s = Addr1 -> Prefix0x \o Rep("1", 40)
      [] s = Addr2 -> Prefix0x \o Rep("a", 40)
      [] s = AddrNonHex -> Prefix0x \o Rep("z", 40)
      [] s = AddrShort -> Prefix0x \o Rep("1", 39)
      [] s = "" -> <<>>

HexChars ==
    {"0", "1", "2", "3", "4", "5", "6", "7", "8", "9",
     "a", "b", "c", "d", "e", "f", "A", "B", "C", "D", "E", "F"}

StartsWith(s, p) == Len(s) >= Len(p) /\ SubSeq(s, 1, Len(p)) = p

\* ethers.isAddress: getAddress accepts /^(0x)?[0-9a-fA-F]{40}$/ (a mixed-case
\* address must also carry a correct checksum, and ICAP strings are accepted
\* too; the addresses above are single-case and none is ICAP).
IsAddress(s) ==
    LET str == Chars(s)
        body == IF StartsWith(str, Prefix0x) THEN SubSeq(str, 3, Len(str)) ELSE str
    IN  Len(body) = 40 /\ \A i \in 1..Len(body) : body[i] \in HexChars

\* The wallet check of the engine variant (line 347).
EngineWalletOk(s) == s # "" /\ StartsWith(Chars(s), Prefix0x) /\ Len(Chars(s)) = 42

(* ---------------------------- configuration ---------------------------- *)
EnvNames == {"RPC_URL", "PRIVATE_KEY", "NFT_CONTRACT_ADDRESS",
             "THIRDWEB_SECRET_KEY", "THIRDWEB_VAULT_ACCESS_TOKEN",
             "SERVER_WALLET_ADDRESS"}

ChainReady(e) == {"RPC_URL", "PRIVATE_KEY", "NFT_CONTRACT_ADDRESS"} \subseteq e

EnvOk(e) ==
    {"THIRDWEB_SECRET_KEY", "THIRDWEB_VAULT_ACCESS_TOKEN",
     "SERVER_WALLET_ADDRESS", "NFT_CONTRACT_ADDRESS"} \subseteq e

(* ------------------------------ the store ------------------------------ *)
NewRow(id, createdAt) ==
    [id |-> id, created_at |-> createdAt,
     used_at |-> NULL, used_by |-> NULL, tx_hash |-> NULL]

\* INSERT OR IGNORE INTO qrs (id, created_at) VALUES (?, ?); id is PRIMARY KEY
InsertQRChanges(tbl, id) == IF \E r \in tbl : r.id = id THEN 0 ELSE 1

\* Faulty form: INSERT OR REPLACE (the old row is dropped for the new one).
InsertQR_Replace(tbl, id, createdAt) ==
    {r \in tbl : r.id # id} \cup {NewRow(id, createdAt)}

\* Faulty form: ON CONFLICT(id) DO UPDATE SET created_at = excluded.created_at.
InsertQR_Upsert(tbl, id, createdAt) ==
    IF \E r \in tbl : r.id = id
    THEN {IF r.id = id THEN [r EXCEPT !.created_at = createdAt] ELSE r : r \in tbl}
    ELSE tbl \cup {NewRow(id, createdAt)}

InsertQR(tbl, id, createdAt) ==
    IF \E r \in tbl : r.id = id THEN tbl ELSE tbl \cup {NewRow(id, createdAt)}

\* SELECT * FROM qrs WHERE id = ?  (.get: the row, or undefined = {})
GetQR(tbl, id) == {r \in tbl : r.id = id}

RowOf(rows) == CHOOSE r \in rows : TRUE

\* Faulty form: WHERE id=? (the row is not required to be unused).
MarkUsedWhere_IdOnly(r, id) == r.id = id

\* UPDATE qrs SET used_at=?, used_by=?, tx_hash=? WHERE id=? AND used_at IS NULL
MarkUsedWhere(r, id) == r.id = id /\ r.used_at = NULL

MarkUsedSet(r, usedAt, usedBy, txHash) ==
    [r EXCEPT !.used_at = usedAt, !.used_by = usedBy, !.tx_hash = txHash]

MarkUsed(tbl, usedAt, usedBy, txHash, id) ==
    {IF MarkUsedWhere(r, id) THEN MarkUsedSet(r, usedAt, usedBy, txHash) ELSE r
        : r \in tbl}

\* Faulty form: the number of rows with the id, used or not.
MarkUsedChanges_IdOnly(tbl, id) == Cardinality({r \in tbl : r.id = id})

\* .changes of the UPDATE: the number of rows it changed
MarkUsedChanges(tbl, id) == Cardinality({r \in tbl : MarkUsedWhere(r, id)})

(* ----------------------------- the minter ------------------------------ *)
\* The hash of the n-th transaction the minter completes; the chain gives
\* every transaction its own hash.
TxHashOf(n) == <<"tx", n>>

\* Faulty form: return receipt?.hash
MintToResult_ReceiptOnly(receiptHash, txHash) == receiptHash

\* return receipt?.hash || tx.hash   (receiptHash = NULL: no receipt hash)
MintToResult(receiptHash, txHash) ==
    IF receiptHash # NULL THEN receiptHash ELSE {txHash}

(* ------------------------------ responses ------------------------------ *)
NoResponse == [status |-> 0, error |-> "", txHash |-> NULL]
Fail(status, error) == [status |-> status, error |-> error, txHash |-> NULL]
Ok(txHash) == [status |-> 200, error |-> "", txHash |-> txHash]

(* --------------------------- POST /api/claim --------------------------- *)
\* The handler up to its first await: validation, lookup, fast-path check and
\* the call of the minter.  `reads` counts the store statements run,
\* `minterCalls` the transactions handed to the minter.
\* Faulty form: the fast-path check of used_at is missing.
Lookup_NoUsedCheck(tbl, e, v, code) ==
    LET row == GetQR(tbl, code)
    IN  IF row = {} THEN [res |-> Fail(404, "QR not found"), reads |-> 1, minterCalls |-> 0]
        ELSE IF v = "ethers" /\ ~ChainReady(e)
            THEN [res |-> Fail(500, "Missing RPC_URL / PRIVATE_KEY / NFT_CONTRACT_ADDRESS"),
                  reads |-> 1, minterCalls |-> 0]
        ELSE [res |-> NoResponse, reads |-> 1, minterCalls |-> 1]

Lookup(tbl, e, v, code) ==
    LET row == GetQR(tbl, code)
    IN  IF row = {} THEN [res |-> Fail(404, "QR not found"), reads |-> 1, minterCalls |-> 0]
        ELSE IF Truthy(RowOf(row).used_at)
            THEN [res |-> Fail(409, "Already claimed"), reads |-> 1, minterCalls |-> 0]
        ELSE IF v = "ethers" /\ ~ChainReady(e)
            THEN [res |-> Fail(500, "Missing RPC_URL / PRIVATE_KEY / NFT_CONTRACT_ADDRESS"),
                  reads |-> 1, minterCalls |-> 0]
        ELSE [res |-> NoResponse, reads |-> 1, minterCalls |-> 1]

Rejected(res) == [res |-> res, reads |-> 0, minterCalls |-> 0]

ClaimSync(tbl, e, v, code, walletAddress) ==
    IF v = "ethers"
    THEN IF code = "" THEN Rejected(Fail(400, "Missing code"))
         ELSE IF ~IsAddress(walletAddress) THEN Rejected(Fail(400, "Invalid walletAddress"))
         ELSE Lookup(tbl, e, v, code)
    ELSE IF ~EnvOk(e) THEN Rejected(Fail(500, "Missing env vars"))
         ELSE IF code = "" THEN Rejected(Fail(400, "Missing code"))
         ELSE IF ~EngineWalletOk(walletAddress) THEN Rejected(Fail(400, "Invalid walletAddress"))
         ELSE Lookup(tbl, e, v, code)

\* A request whose handler awaits the minter has sent no response yet.
Pending(r) == r.res = NoResponse
Replace(bag, old, new) == (bag (-) SetToBag({old})) (+) SetToBag({new})

ClaimRequest(code, walletAddress) ==
    /\ BagCardinality(calls) < NCalls
    /\ LET s == ClaimSync(qrs, env, variant, code, walletAddress)
       IN  calls' = calls (+) SetToBag({
                [code |-> code, walletAddress |-> walletAddress,
                 reads |-> s.reads, minterCalls |-> s.minterCalls,
                 txHash |-> NULL, changed |-> NULL, res |-> s.res]})
    /\ UNCHANGED <<variant, env, qrs, txCount, last>>

\* Faulty form: the check of `changed` is missing.
ClaimResponse_AlwaysOk(changed, txHash) == Ok(txHash)

\* The response after markUsed ran (lines 176-179, 359-362).
ClaimResponse(changed, txHash) ==
    IF changed = 0 THEN Fail(409, "QR just got used") ELSE Ok(txHash)

\* The transaction reference the handler gets from the minter.
MintResult(v, receiptHash, txHash) ==
    IF v = "ethers" THEN MintToResult(receiptHash, txHash) ELSE {txHash}

\* The minter returned: markUsed runs and the response is sent.
MintResolves(r, receiptHash, now) ==
    /\ r \in BagToSet(calls) /\ Pending(r)
    /\ LET txHash == MintResult(variant, receiptHash, TxHashOf(txCount + 1))
           changed == MarkUsedChanges(qrs, r.code)
       IN  /\ qrs' = MarkUsed(qrs, {now}, {r.walletAddress}, txHash, r.code)
           /\ calls' = Replace(calls, r,
                  [r EXCEPT !.txHash = txHash, !.changed = {changed},
                            !.res = ClaimResponse(changed, txHash)])
    /\ txCount' = txCount + 1
    /\ UNCHANGED <<variant, env, last>>

\* Faulty form: the row is marked before the minter is called, and the minter
\* then fails.
MintRejects_MarkFirst(r) ==
    /\ r \in BagToSet(calls) /\ Pending(r)
    /\ qrs' = MarkUsed(qrs, {1}, {r.walletAddress}, NULL, r.code)
    /\ calls' = Replace(calls, r, [r EXCEPT !.res = Fail(500, "minter error")])
    /\ UNCHANGED <<variant, env, txCount, last>>

\* Faulty form: the await is outside the try block, and the rejection of the
\* minter ends the handler with no response sent.
MintRejects_NoCatch(r) ==
    /\ r \in BagToSet(calls) /\ Pending(r)
    /\ calls' = Replace(calls, r,
           [r EXCEPT !.res = [status |-> 0, error |-> "unhandled rejection", txHash |-> NULL]])
    /\ UNCHANGED <<variant, env, qrs, txCount, last>>

\* The minter failed: the catch block answers 500.
MintRejects(r) ==
    /\ r \in BagToSet(calls) /\ Pending(r)
    /\ calls' = Replace(calls, r, [r EXCEPT !.res = Fail(500, "minter error")])
    /\ UNCHANGED <<variant, env, qrs, txCount, last>>

\* Faulty form: the exception of markUsed.run is swallowed and the handler
\* goes on to answer 200.
MarkUsedThrows_Swallowed(r) ==
    /\ r \in BagToSet(calls) /\ Pending(r)
    /\ calls' = Replace(calls, r,
           [r EXCEPT !.txHash = {TxHashOf(txCount + 1)},
                     !.res = Ok({TxHashOf(txCount + 1)})])
    /\ txCount' = txCount + 1
    /\ UNCHANGED <<variant, env, qrs, last>>

\* The minter returned and markUsed.run threw (store unavailable): the catch
\* block answers 500.
MarkUsedThrows(r) ==
    /\ r \in BagToSet(calls) /\ Pending(r)
    /\ calls' = Replace(calls, r,
           [r EXCEPT !.txHash = {TxHashOf(txCount + 1)},
                     !.res = Fail(500, "store error")])
    /\ txCount' = txCount + 1
    /\ UNCHANGED <<variant, env, qrs, last>>

(* ------------------------- POST /api/qrs/create ------------------------ *)
DefaultCount(v) == IF v = "ethers" THEN 12 ELSE 1
MaxBatch == 200

Min(a, b) == IF a < b THEN a ELSE b
Max(a, b) == IF a > b THEN a ELSE b

\* Math.max(1, Math.min(200, Number(req.body?.count || default)))
BatchCount(v, count) ==
    Max(1, Min(MaxBatch, IF count = 0 THEN DefaultCount(v) ELSE count))

\* for (i < count) { id = newId(); insertQR.run(id, now); ids.push(id) }
\* The insertions run in the order of ids: those of the first half of the
\* sequence, then those of the second on the table the first half left (the
\* comparison with tbl has that table computed before the second half starts).
RECURSIVE InsertAll(_, _, _)
InsertAll(tbl, ids, now) ==
    IF ids = <<>> THEN tbl
    ELSE IF Len(ids) = 1 THEN InsertQR(tbl, ids[1], now)
    ELSE LET h == Len(ids) \div 2
             first == InsertAll(tbl, SubSeq(ids, 1, h), now)
             rest == SubSeq(ids, h + 1, Len(ids))
         IN  IF first = tbl THEN InsertAll(tbl, rest, now) ELSE InsertAll(first, rest, now)

CreateQRs(count, ids, now) ==
    /\ Len(ids) = BatchCount(variant, count)
    /\ qrs' = InsertAll(qrs, ids, now)
    /\ qrs' # qrs
    /\ UNCHANGED <<variant, env, calls, txCount, last>>

\* The handler with its response: { ok: true, created: ids.length, ids }
\* (the engine variant adds code: ids[0]).  `count` is the body's count.
CreateResponse(v, count, ids) ==
    [op |-> "create", count |-> count, created |-> Len(ids), ids |-> ids,
     code |-> IF v = "ethers" THEN NULL ELSE {ids[1]}]

CreateRequest(count, ids, now) ==
    /\ Cardinality(qrs) < MaxRows
    /\ Len(ids) = BatchCount(variant, count)
    /\ qrs' = InsertAll(qrs, ids, now)
    /\ last' = CreateResponse(variant, count, ids)
    /\ UNCHANGED <<variant, env, calls, txCount>>

\* The ids a run of n calls of newId() returns, for a table of k rows c1..ck:
\* ids that are new to the table and to the batch, except that call number
\* dupAt (if there is one) returns c1 again.
IdOf(n) == "c" \o ToString(n)
NewIds(k, n, dupAt) ==
    [i \in 1..n |->
        IF i = dupAt THEN IdOf(1)
        ELSE IdOf(k + i - (IF dupAt >= 1 /\ i > dupAt THEN 1 ELSE 0))]

(* ----------------------------- GET /api/qrs ---------------------------- *)
DefaultLimit == 50
MaxLimit == 500

\* Math.max(1, Math.min(500, Number(req.query?.limit || 50))).  A query value
\* is a string: NULL is a missing or empty one, {n} the decimal string of n,
\* which is truthy whatever n is.
ListLimit(limit) ==
    Max(1, Min(MaxLimit, IF limit = NULL THEN DefaultLimit ELSE RowOf(limit)))

\* The orders in which a scan can meet the rows of the table.
Scans(tbl) ==
    {s \in [1..Cardinality(tbl) -> tbl] : \A i, j \in DOMAIN s : i # j => s[i] # s[j]}

\* Faulty form: ORDER BY created_at ASC.
ListQRBefore_Asc(scan, i, j) ==
    \/ scan[i].created_at < scan[j].created_at
    \/ scan[i].created_at = scan[j].created_at /\ i < j

\* ORDER BY created_at DESC: row i of the scan comes before row j.  SQL leaves
\* the order of rows with equal created_at open; they stay in scan order.
ListQRBefore(scan, i, j) ==
    \/ scan[i].created_at > scan[j].created_at
    \/ scan[i].created_at = scan[j].created_at /\ i < j

\* SELECT * FROM qrs ORDER BY created_at DESC LIMIT ?
ListQR(scan, limit) ==
    LET pos(i) == 1 + Cardinality({j \in DOMAIN scan : ListQRBefore(scan, j, i)})
        n == Min(limit, Len(scan))
    IN  [k \in 1..n |-> scan[CHOOSE i \in DOMAIN scan : pos(i) = k]]

\* .map((r) => ({ id, created_at, used_at, used_by, tx_hash }))
ListItem(r) ==
    [id |-> r.id, created_at |-> r.created_at, used_at |-> r.used_at,
     used_by |-> r.used_by, tx_hash |-> r.tx_hash]

ListRequest(limit, scan) ==
    /\ scan \in Scans(qrs)
    /\ LET rows == ListQR(scan, ListLimit(limit))
       IN  last' = [op |-> "list", limit |-> limit,
                    items |-> [k \in DOMAIN rows |-> ListItem(rows[k])]]
    /\ UNCHANGED <<variant, env, qrs, calls, txCount>>

(* --------------------------- specifications ---------------------------- *)
\* The bodies of the claim requests: code c1 (an unknown code as long as no
\* row c1 exists) with every wallet, and a missing code.  No claim is made on
\* c2, the second row of the table.
ClaimInputs ==
    {[code |-> "c1", walletAddress |-> w] : w \in Wallets}
        \cup {[code |-> "", walletAddress |-> Addr1]}

Envs == {EnvNames, EnvNames \ {"NFT_CONTRACT_ADDRESS"}}

NoStatement ==
    [op |-> "none", id |-> "", createdAt |-> NULL, usedAt |-> NULL,
     usedBy |-> NULL, txHash |-> NULL, changes |-> 0]

Init ==
    /\ variant \in {"ethers", "engine"}
    /\ env \in Envs
    /\ qrs = {}
    /\ calls = EmptyBag
    /\ txCount = 0
    /\ last = NoStatement

Next ==
    \/ \E count \in ReqCounts, now \in Times :
         \E ids \in [1..BatchCount(variant, count) -> Ids] : CreateQRs(count, ids, now)
    \/ \E in \in ClaimInputs : ClaimRequest(in.code, in.walletAddress)
    \/ \E r \in BagToSet(calls), now \in Times :
         \E receiptHash \in {NULL, {TxHashOf(txCount + 1)}} : MintResolves(r, receiptHash, now)
    \/ \E r \in BagToSet(calls) : MintRejects(r)
    \/ \E r \in BagToSet(calls) : MarkUsedThrows(r)

Spec == Init /\ [][Next]_vars

\* The promise of the minter settles, and the synchronous rest of the handler
\* (markUsed and the response, or the catch block) runs to its end.
Settle ==
    \E r \in BagToSet(calls) :
        \/ \E now \in Times, receiptHash \in {NULL, {TxHashOf(txCount + 1)}} :
              MintResolves(r, receiptHash, now)
        \/ MintRejects(r)
        \/ MarkUsedThrows(r)

SpecLive == Init /\ [][Next]_vars /\ WF_vars(Settle)

(* ---------------- the store statements, called directly ---------------- *)
\* Every statement of the store, run with arbitrary arguments; `last` tells
\* which statement ran, with what arguments, and the .changes it reported.
StoreWallets == {Addr1, Addr2}
StoreTxHashes == {TxHashOf(1), TxHashOf(2)}

StoreInsert(id, createdAt) ==
    /\ qrs' = InsertQR(qrs, id, createdAt)
    /\ last' = [op |-> "insertQR", id |-> id, createdAt |-> {createdAt},
                usedAt |-> NULL, usedBy |-> NULL, txHash |-> NULL,
                changes |-> InsertQRChanges(qrs, id)]
    /\ UNCHANGED <<variant, env, calls, txCount>>

StoreMarkUsed(usedAt, usedBy, txHash, id) ==
    /\ qrs' = MarkUsed(qrs, {usedAt}, {usedBy}, {txHash}, id)
    /\ last' = [op |-> "markUsed", id |-> id, createdAt |-> NULL,
                usedAt |-> {usedAt}, usedBy |-> {usedBy}, txHash |-> {txHash},
                changes |-> MarkUsedChanges(qrs, id)]
    /\ UNCHANGED <<variant, env, calls, txCount>>

InitStore ==
    /\ variant = "ethers"
    /\ env = EnvNames
    /\ qrs = {}
    /\ calls = EmptyBag
    /\ txCount = 0
    /\ last = NoStatement

NextStore ==
    \/ \E id \in Ids, t \in Times : StoreInsert(id, t)
    \/ \E id \in Ids, t \in Times, w \in StoreWallets, h \in StoreTxHashes :
         StoreMarkUsed(t, w, h, id)

SpecStore == InitStore /\ [][NextStore]_vars

(* ------------------------- the create handler -------------------------- *)
\* Create requests alone, with counts below, inside and far above the range.
CreateCounts == {-5, 0, 1, 3, 10000}
DupAts == {0, 1, 2}

InitCreate ==
    /\ variant \in {"ethers", "engine"}
    /\ env = EnvNames
    /\ qrs = {}
    /\ calls = EmptyBag
    /\ txCount = 0
    /\ last = NoStatement

NextCreate ==
    \E count \in CreateCounts, now \in Times, dupAt \in DupAts :
        CreateRequest(count, NewIds(Cardinality(qrs), BatchCount(variant, count), dupAt), now)

SpecCreate == InitCreate /\ [][NextCreate]_vars

(* -------------------------- the list handler --------------------------- *)
\* Lists of a table that the store statements fill and mark.
ListIds == {"c1", "c2", "c3"}
ListLimits == {NULL, {-1}, {0}, {1}, {2}, {1000}}

NextList ==
    \/ \E id \in ListIds, t \in Times : StoreInsert(id, t)
    \/ \E id \in ListIds, t \in Times : StoreMarkUsed(t, Addr1, TxHashOf(1), id)
    \/ \E limit \in ListLimits : \E scan \in Scans(qrs) : ListRequest(limit, scan)

SpecList == InitStore /\ [][NextList]_vars

(* ------------------------------- claims -------------------------------- *)
Requests == BagToSet(calls)

\* The number of requests of a set of request records, copies counted.
CountOf(rs) == BagCardinality([r \in rs |-> calls[r]])

\* The requests on a code whose markUsed ran, and those it reported a change to.
Marked(code) == {r \in Requests : r.code = code /\ r.changed # NULL}
Winners(code) == {r \in Marked(code) : r.changed = {1}}

Used(r) == r.used_at # NULL

\* C1: single use.  For every code, at most one claim ever sees markUsed
\* report a change; as soon as one claim on the code has run markUsed exactly
\* one has seen the change and every other that ran it has seen none; the
\* triple the row holds is the one that claim wrote.
SingleUse ==
    \A code \in Ids :
        /\ CountOf(Winners(code)) <= 1
        /\ Marked(code) # {} => CountOf(Winners(code)) = 1
        /\ \A r \in Marked(code) \ Winners(code) : r.changed = {0}
        /\ \A r \in Winners(code) : \A row \in GetQR(qrs, code) :
               Used(row) /\ row.used_by = {r.walletAddress} /\ row.tx_hash = r.txHash
        /\ Cardinality({row \in GetQR(qrs, code) : Used(row)}) = CountOf(Winners(code))

\* Three claims raced on c1, with different wallets: all three minted and ran
\* markUsed.
SingleUseWitness ==
    /\ CountOf(Marked("c1")) = 3
    /\ Cardinality({r.walletAddress : r \in Marked("c1")}) > 1

\* C2: write once.  No step changes or clears used_at, used_by or tx_hash of a
\* row whose used_at is set, and no step removes such a row.
WriteOnce ==
    [][\A row \in qrs : Used(row) =>
          /\ GetQR(qrs', row.id) # {}
          /\ \A new \in GetQR(qrs', row.id) :
                /\ new.used_at = row.used_at
                /\ new.used_by = row.used_by
                /\ new.tx_hash = row.tx_hash]_vars

\* c1 is used, and since then a claim with another wallet has run markUsed on
\* it and one has been turned away by the fast-path check.
WriteOnceWitness ==
    \E row \in GetQR(qrs, "c1") :
        /\ Used(row)
        /\ \E r \in Marked("c1") : r.changed = {0} /\ {r.walletAddress} # row.used_by
        /\ \E r \in Requests : r.code = "c1" /\ r.res.status = 409 /\ r.reads = 1
                                /\ r.minterCalls = 0

\* C3: all or nothing.  In every row used_at, used_by and tx_hash are all NULL
\* or all set.
AllOrNothing ==
    \A row \in qrs :
        \/ row.used_at = NULL /\ row.used_by = NULL /\ row.tx_hash = NULL
        \/ row.used_at # NULL /\ row.used_by # NULL /\ row.tx_hash # NULL

\* The ethers variant marked a row used with the hash of a transaction whose
\* receipt carried none, next to a row that is unused.
AllOrNothingWitness ==
    /\ variant = "ethers"
    /\ \E row \in qrs : Used(row) /\ row.tx_hash # NULL
    /\ \E row \in qrs : ~Used(row)
    /\ \E r \in Winners("c1") : r.res.status = 200

\* C4: markUsed is one conditional update.  It reports a change and sets
\* the three fields of the row if and only if a row with the id exists and its
\* used_at is NULL; otherwise (unknown id, row already used) it reports no
\* change and the table stays as it was.
MarkUsedConditional ==
    [][last'.op = "markUsed" =>
          LET eligible == {r \in qrs : r.id = last'.id /\ r.used_at = NULL}
          IN  /\ last'.changes = (IF eligible # {} THEN 1 ELSE 0)
              /\ eligible = {} => qrs' = qrs
              /\ \A r \in eligible :
                    qrs' = (qrs \ {r}) \cup
                           {[r EXCEPT !.used_at = last'.usedAt,
                                      !.used_by = last'.usedBy,
                                      !.tx_hash = last'.txHash]}]_vars

\* markUsed was refused on a row that another wallet had used, while the
\* other id is still unknown to the table.
MarkUsedConditionalWitness ==
    /\ last.op = "markUsed" /\ last.changes = 0
    /\ \E r \in GetQR(qrs, last.id) : Used(r) /\ r.used_by # last.usedBy
    /\ \E id \in Ids : GetQR(qrs, id) = {}

\* C5: creation is idempotent.  insertQR on an id that has a row reports no
\* insertion and leaves the table as it was; whatever statements run, a row
\* that exists stays the one row of its id with the created_at it was
\* inserted with.
IdempotentCreate ==
    [][/\ \A row \in qrs :
             /\ Cardinality(GetQR(qrs', row.id)) = 1
             /\ \A new \in GetQR(qrs', row.id) : new.created_at = row.created_at
       /\ (last'.op = "insertQR" /\ GetQR(qrs, last'.id) # {}) =>
             last'.changes = 0 /\ qrs' = qrs
       /\ (last'.op = "insertQR" /\ GetQR(qrs, last'.id) = {}) =>
             last'.changes = 1 /\ qrs' = qrs \cup {NewRow(last'.id, RowOf(last'.createdAt))}]_vars

\* insertQR ran a second time on an id, with another timestamp, after the row
\* had been marked used in between.
IdempotentCreateWitness ==
    /\ last.op = "insertQR" /\ last.changes = 0
    /\ \E r \in GetQR(qrs, last.id) : Used(r) /\ {r.created_at} # last.createdAt

\* A syntactically valid chain address as the claims define it: the prefix 0x
\* followed by exactly 40 hexadecimal characters.
WellFormedAddress(s) ==
    /\ Len(Chars(s)) = 42
    /\ SubSeq(Chars(s), 1, 2) = Prefix0x
    /\ \A i \in 3..42 : Chars(s)[i] \in HexChars

ValidInput(r) == r.code # "" /\ WellFormedAddress(r.walletAddress)

\* A step that receives a claim request, and the request it receives.
IsRequestStep == BagCardinality(calls') = BagCardinality(calls) + 1
NewRequests == {r \in BagToSet(calls') : CopiesIn(r, calls') > CopiesIn(r, calls)}

\* C6: validation comes first.  A claim with an empty code or a wallet address
\* that is not 0x and 40 hexadecimal characters is answered InvalidInput (400)
\* with no store access and no minter call, whatever the configuration; a
\* claim with a code and a valid address gets past validation to the lookup.
ValidationFirst ==
    \A r \in Requests :
        IF ValidInput(r)
        THEN r.reads > 0
        ELSE r.res.status = 400 /\ r.reads = 0 /\ r.minterCalls = 0

\* C7: unknown code.  A claim with valid input on a code that has no row is
\* answered NotFound (404), hands nothing to the minter and leaves the table
\* as it was.
UnknownCodeNotFound ==
    [][IsRequestStep =>
          \A r \in NewRequests :
              (ValidInput(r) /\ GetQR(qrs, r.code) = {}) =>
                  /\ r.res = Fail(404, "QR not found")
                  /\ r.minterCalls = 0
                  /\ qrs' = qrs]_vars

SuccessfulClaim ==
    \A r \in Requests :
        /\ r.res.status = 200 <=> (r.txHash # NULL /\ r.changed = {1})
        /\ r.res.status = 200 =>
              /\ r.res.txHash = r.txHash
              /\ GetQR(qrs, r.code) # {}
              /\ \A row \in GetQR(qrs, r.code) :
                    row.used_by = {r.walletAddress} /\ row.tx_hash = r.res.txHash

\* A claim was answered 200, and after it a claim with another wallet minted
\* and ran markUsed on the same code.
SuccessfulClaimWitness ==
    \E r \in Requests :
        /\ r.res.status = 200 /\ r.res.txHash = {TxHashOf(1)}
        /\ \E l \in Marked(r.code) :
              l.walletAddress # r.walletAddress /\ l.txHash = {TxHashOf(2)}

Conflict == Fail(409, "QR just got used")

\* C10: conflict after mint.  A claim whose mint succeeded and whose markUsed
\* reported no change is answered Conflict (409, "QR just got used"); Conflict
\* is sent only then, when another claim has consumed the code; the row keeps
\* what that claim recorded.
ConflictAfterMint ==
    \A r \in Requests :
        /\ (r.txHash # NULL /\ r.changed = {0}) => r.res = Conflict
        /\ r.res = Conflict =>
              /\ r.minterCalls = 1 /\ r.txHash # NULL /\ r.changed = {0}
              /\ \E w \in Winners(r.code) :
                    /\ w.txHash # r.txHash
                    /\ \A row \in GetQR(qrs, r.code) :
                          row.used_by = {w.walletAddress} /\ row.tx_hash = w.txHash

\* Two claims were answered Conflict after the claim of another wallet had
\* consumed c1.
ConflictAfterMintWitness ==
    /\ CountOf({r \in Requests : r.res = Conflict /\ r.code = "c1"}) = 2
    /\ \E w \in Winners("c1") : \E r \in Requests :
          r.res = Conflict /\ r.walletAddress # w.walletAddress

MinterError == Fail(500, "minter error")

\* The requests that are answered in this step.
Answered == {r \in BagToSet(calls') : r.res # NoResponse /\ CopiesIn(r, calls') > CopiesIn(r, calls)}

\* C11: minter failure leaves the code claimable.  A claim whose minter call
\* fails has handed one transaction to the minter and no more, has not run
\* markUsed, is answered with a server error (500), and the step leaves the
\* table and the count of completed transactions as they were; if the row of
\* its code was unused it still is, and a claim that arrives next on the code
\* gets past the fast-path check to the minter.
MinterFailure ==
    [][\A r \in Answered : r.res = MinterError =>
          /\ r.res.status = 500
          /\ r.minterCalls = 1 /\ r.changed = NULL /\ r.txHash = NULL
          /\ qrs' = qrs /\ txCount' = txCount
          /\ \A row \in GetQR(qrs, r.code) : ~Used(row) =>
                /\ \A new \in GetQR(qrs', r.code) : ~Used(new)
                /\ ClaimSync(qrs', env', variant', r.code, Addr1).res = NoResponse
                /\ ClaimSync(qrs', env', variant', r.code, Addr1).minterCalls = 1]_vars

\* The minter failed two claims on c1 and completed the transaction of a
\* third, which consumed the code and was answered 200.
MinterFailureWitness ==
    /\ CountOf({r \in Requests : r.code = "c1" /\ r.res = MinterError}) = 2
    /\ \E w \in Winners("c1") : w.res.status = 200 /\ w.txHash = {TxHashOf(1)}

\* C12: codes are never deleted and their identity is immutable.  Every step
\* keeps every row of the table, as the one row of its id and with the
\* created_at it has; a step changes a row only from unused to used, and only
\* when a claim on its code is answered 200 in that step.
RowsRetained ==
    [][\A row \in qrs :
          /\ Cardinality(GetQR(qrs', row.id)) = 1
          /\ \A new \in GetQR(qrs', row.id) :
                /\ new.created_at = row.created_at
                /\ new # row =>
                      /\ ~Used(row) /\ Used(new)
                      /\ \E r \in Answered :
                            r.code = row.id /\ r.res.status = 200 /\ r.changed = {1}]_vars

\* Two rows created at different times, the older one consumed by a claim,
\* after which another claim ran markUsed on it and was answered Conflict.
RowsRetainedWitness ==
    /\ \E a \in GetQR(qrs, "c1"), b \in GetQR(qrs, "c2") :
          Used(a) /\ ~Used(b) /\ a.created_at = 1 /\ b.created_at = 2
    /\ \E r \in Requests : r.code = "c1" /\ r.res = Conflict

Clamp(x, lo, hi) == Min(hi, Max(lo, x))

\* C13: bounded batch size.  A create request with count c runs the insertion
\* min(200, max(1, c)) times and reports that many ids, whatever c is (0,
\* negative, far above 200), and adds no more than 200 rows to the table.
BoundedBatch ==
    [][last'.op = "create" =>
          /\ last'.created = Clamp(last'.count, 1, 200)
          /\ Len(last'.ids) = Clamp(last'.count, 1, 200)
          /\ Cardinality(qrs' \ qrs) <= 200]_vars

\* C14: the create response is truthful.  The ids a create request returns
\* are pairwise distinct, none of them was in the table before the request,
\* each is the id of a row the request added, and `created` is the number of
\* rows the request added, also when newId() returns an id that exists.
TruthfulCreate ==
    [][last'.op = "create" =>
          LET ids == last'.ids
          IN  /\ \A i, j \in 1..Len(ids) : i # j => ids[i] # ids[j]
              /\ \A i \in 1..Len(ids) : GetQR(qrs, ids[i]) = {}
              /\ \A i \in 1..Len(ids) : GetQR(qrs' \ qrs, ids[i]) # {}
              /\ last'.created = Cardinality(qrs' \ qrs)]_vars

\* C15: list(limit) is a pure read.  A list request with limit n leaves the
\* table as it was and returns min(clamp(n, 1, 500), number of rows) items,
\* each the current id, created_at, used_at, used_by and tx_hash of a row of
\* its own, in non-increasing created_at order; no row left out is newer than
\* a returned one.
ListNewestFirst ==
    [][(last'.op = "list" /\ last'.limit # NULL) =>
          LET items == last'.items
              n == Clamp(RowOf(last'.limit), 1, 500)
              returned == {items[k] : k \in DOMAIN items}
          IN  /\ qrs' = qrs
              /\ Len(items) = Min(n, Cardinality(qrs))
              /\ returned \subseteq qrs
              /\ Cardinality(returned) = Len(items)
              /\ \A k \in 1..(Len(items) - 1) :
                    items[k].created_at >= items[k + 1].created_at
              /\ \A r \in qrs \ returned : \A i \in returned :
                    r.created_at <= i.created_at]_vars

\* list(2) on three rows: the newest row, which is used, comes first, and of
\* the two older rows with equal created_at one is returned and one left out.
ListNewestFirstWitness ==
    /\ last.op = "list" /\ last.limit = {2} /\ Cardinality(qrs) = 3
    /\ Len(last.items) = 2
    /\ Used(last.items[1])
    /\ last.items[1].created_at > last.items[2].created_at
    /\ \E r \in qrs : r # last.items[2] /\ r.created_at = last.items[2].created_at

\* The requests on a code to which the minter returned a transaction.
Minted(code) == {r \in Requests : r.code = code /\ r.txHash # NULL}

\* C16: at most a double mint.  For every code, whatever the number of claims
\* on it and their interleaving, the minter completes a transaction for at
\* most two of them.
AtMostDoubleMint == \A code \in Ids : CountOf(Minted(code)) <= 2

\* C17: partial-failure window.  A claim whose mint succeeded and whose
\* markUsed did not complete (the store was unavailable) is answered with a
\* server error (500), not 200 and not Conflict, and the step leaves the table
\* as it was; a row that was unused has used_at, used_by and tx_hash all NULL
\* after it, and a claim that arrives next on the code gets past the
\* fast-path check to the minter.
PartialFailure ==
    [][\A r \in Answered : (r.txHash # NULL /\ r.changed = NULL) =>
          /\ r.res.status = 500 /\ r.res # Conflict
          /\ r.minterCalls = 1
          /\ qrs' = qrs
          /\ \A row \in GetQR(qrs, r.code) : ~Used(row) =>
                /\ \A new \in GetQR(qrs', r.code) :
                      new.used_at = NULL /\ new.used_by = NULL /\ new.tx_hash = NULL
                /\ ClaimSync(qrs', env', variant', r.code, r.walletAddress).res = NoResponse
                /\ ClaimSync(qrs', env', variant', r.code, r.walletAddress).minterCalls = 1]_vars

\* The first transaction was minted for a claim on c1 whose markUsed failed;
\* the row is unused, and the minter has since completed a second transaction
\* for another claim of the same wallet on c1, whose markUsed failed too.
PartialFailureWitness ==
    /\ \A row \in GetQR(qrs, "c1") : ~Used(row)
    /\ GetQR(qrs, "c1") # {}
    /\ \E r1, r2 \in Minted("c1") :
          /\ r1.txHash = {TxHashOf(1)} /\ r2.txHash = {TxHashOf(2)}
          /\ r1.walletAddress = r2.walletAddress
          /\ r1.res.status = 500 /\ r2.res.status = 500
          /\ r1.changed = NULL /\ r2.changed = NULL

Unanswered == {r \in Requests : r.res.status = 0}

AlreadyUsed == Fail(409, "Already claimed")
Successes(code) == {r \in Requests : r.code = code /\ r.res.status = 200}
Others(code) == {r \in Requests \ Unanswered : r.code = code /\ r.res.status # 200}

\* C19, as stated: at most one success per code.  At most one claim on a code
\* is ever answered 200; when one is, every other claim on that code is
\* answered AlreadyUsed, Conflict or with a server error.
OneSuccessOthersRefused ==
    \A code \in Ids :
        /\ CountOf(Successes(code)) <= 1
        /\ Successes(code) # {} =>
              \A r \in Others(code) :
                  r.res = AlreadyUsed \/ r.res = Conflict \/ r.res.status = 500

\* C19: at most one success per code.  At most one claim on a code is ever
\* answered 200; every other claim on that code is answered InvalidInput
\* (before any lookup), NotFound (without a minter call), AlreadyUsed,
\* Conflict or with a server error.
OneSuccess ==
    \A code \in Ids :
        /\ CountOf(Successes(code)) <= 1
        /\ \A r \in Others(code) :
              \/ r.res.status = 400 /\ r.reads = 0 /\ r.minterCalls = 0
              \/ r.res = Fail(404, "QR not found") /\ r.minterCalls = 0
              \/ r.res = AlreadyUsed \/ r.res = Conflict \/ r.res.status = 500

\* One claim on c1 was answered 200, one that had minted too was answered
\* Conflict, and one that came later was answered AlreadyUsed.
OneSuccessWitness ==
    /\ CountOf(Successes("c1")) = 1
    /\ \E r \in Others("c1") : r.res = Conflict
    /\ \E r \in Others("c1") : r.res = AlreadyUsed

\* C20: a recorded consumption is backed by a mint.  Every used row holds in
\* tx_hash the transaction reference the minter returned to a claim on the
\* code of the row, made for the address the row holds in used_by, and that
\* claim has run its markUsed; the number of used rows is at most the number
\* of transactions the minter has completed.
BackedByMint ==
    /\ \A row \in qrs : Used(row) =>
          /\ row.tx_hash # NULL
          /\ \E r \in Minted(row.id) :
                /\ r.txHash = row.tx_hash
                /\ {r.walletAddress} = row.used_by
                /\ r.minterCalls = 1 /\ r.changed = {1}
          /\ \E n \in 1..txCount : row.tx_hash = {TxHashOf(n)}
    /\ Cardinality({row \in qrs : Used(row)}) <= txCount

\* The minter has completed three transactions for claims on c1: the row
\* holds the second one and the wallet it was minted for, the first was
\* minted for a claim whose markUsed failed.
BackedByMintWitness ==
    /\ txCount = 3
    /\ \E row \in GetQR(qrs, "c1") : row.tx_hash = {TxHashOf(2)} /\ row.used_by = {Addr2}
    /\ \E r \in Minted("c1") : r.txHash = {TxHashOf(1)} /\ r.changed = NULL
                                  /\ r.walletAddress = Addr1

====
